---- MODULE Spec2Model ----
(***************************************************************************)
(* FlowStack backend: the workflow validator (validator.py), the workflow  *)
(* executor (orchestrator.py), the update_stack endpoint (main.py,         *)
(* crud.py) and the process-wide API-key configuration used by the         *)
(* collaborators (llm_handler.py, processing.py).                          *)
(*                                                                         *)
(* Node ids and edge ends are naturals from 1; they stand for non-empty id *)
(* strings, the node ids unique within a graph.  Python's None for a node  *)
(* id is 0.                                                                *)
(***************************************************************************)
EXTENDS Integers, Sequences, FiniteSets, TLC

VARIABLES workflow, query, pc, current_node_id, current_data, visited,
          search_calls, llm_calls, result, validation, stacks, response,
          genai_key, execs

vars == <<workflow, query, pc, current_node_id, current_data, visited,
          search_calls, llm_calls, result, validation, stacks, response,
          genai_key, execs>>

(***************************************************************************)
(* Bounds of the model.                                                    *)
(***************************************************************************)
MaxNodes == 2
MaxEdges == 2

(***************************************************************************)
(* The graph model: {"nodes": [{id, type, data}], "edges": [{source,       *)
(* target}]}.                                                              *)
(***************************************************************************)
Kinds == {"userQuery", "knowledgeBase", "llmEngine", "output"}

\* Prompt templates are sequences of pieces: literal text or a replacement
\* field {name}.
DefaultTemplate == <<"text", "{context}", "{web_context}", "{query}">>
CustomTemplate == <<"text", "{query}">>
ExtraFieldTemplate == <<"{query}", "{history}">>

PlainData == [label |-> "node"]

LlmData ==
  { PlainData,
    [label |-> "node", webSearchTool |-> "SerpAPI"],
    [label |-> "node", prompt |-> CustomTemplate],
    [label |-> "node", prompt |-> ExtraFieldTemplate] }

DataOf(kind) == IF kind = "llmEngine" THEN LlmData ELSE {PlainData}

NodeChoices == UNION { { [type |-> k, data |-> d] : d \in DataOf(k) } : k \in Kinds }

\* The node lists of length n: the node at position i has id i.
NodeLists(n) ==
  { [i \in 1..n |-> [id |-> i, type |-> f[i].type, data |-> f[i].data]] :
      f \in [1..n -> NodeChoices] }

\* Edges over the ids 1..n and one id, n+1, that no node has.
EdgeChoices(n) == [source : 1..(n+1), target : 1..(n+1)]

EdgeLists(n, m) == UNION { [1..k -> EdgeChoices(n)] : k \in 0..m }

WorkflowsOf(maxn, maxe) ==
  UNION { [nodes : NodeLists(n), edges : EdgeLists(n, maxe)] : n \in 0..maxn }

\* workflow is a graph of at most MaxNodes nodes and MaxEdges edges.
IsWorkflow(w) ==
  \E n \in 0..MaxNodes :
     \E nodes \in NodeLists(n), edges \in EdgeLists(n, MaxEdges) :
        w = [nodes |-> nodes, edges |-> edges]

Range(s) == { s[i] : i \in DOMAIN s }

\* dict.get(key, default)
Get(d, key, default) == IF key \in DOMAIN d THEN d[key] ELSE default

(***************************************************************************)
(* validator.validate_workflow                                             *)
(***************************************************************************)
NodeIdsWithInputs(edges) == { e.target : e \in Range(edges) }

\* The positions, in list order, of the nodes without an incoming edge.
StartNodes(nodes, edges) ==
  SelectSeq([i \in 1..Len(nodes) |-> i],
            LAMBDA i : nodes[i].id \notin NodeIdsWithInputs(edges))

EndNodes(nodes, edges) ==
  { i \in 1..Len(nodes) :
      /\ nodes[i].type = "output"
      /\ ~ \E e \in Range(edges) : e.source = nodes[i].id }

\* validate_workflow with the start-node count tested by "< 1".
validate_workflow_many_starts(w) ==
  LET nodes == w.nodes
      edges == w.edges
      start_nodes == StartNodes(nodes, edges)
  IN  IF Len(nodes) = 0
        THEN <<FALSE, "Workflow cannot be empty.">>
      ELSE IF Len(start_nodes) < 1
        THEN <<FALSE, "Workflow must have exactly one starting point. Found "
                        \o ToString(Len(start_nodes)) \o ".">>
      ELSE IF nodes[start_nodes[1]].type # "userQuery"
        THEN <<FALSE, "The starting node must be a 'User Query' node.">>
      ELSE IF Len(nodes) > 1 /\ Len(edges) = 0
        THEN <<FALSE, "There are multiple nodes but no connections.">>
      ELSE IF EndNodes(nodes, edges) = {}
        THEN <<FALSE, "Workflow must have at least one Output node.">>
      ELSE <<TRUE, "Workflow is valid.">>

\* validate_workflow without the end-node test.
validate_workflow_no_end_test(w) ==
  LET nodes == w.nodes
      edges == w.edges
      start_nodes == StartNodes(nodes, edges)
  IN  IF Len(nodes) = 0
        THEN <<FALSE, "Workflow cannot be empty.">>
      ELSE IF Len(start_nodes) # 1
        THEN <<FALSE, "Workflow must have exactly one starting point. Found "
                        \o ToString(Len(start_nodes)) \o ".">>
      ELSE IF nodes[start_nodes[1]].type # "userQuery"
        THEN <<FALSE, "The starting node must be a 'User Query' node.">>
      ELSE IF Len(nodes) > 1 /\ Len(edges) = 0
        THEN <<FALSE, "There are multiple nodes but no connections.">>
      ELSE <<TRUE, "Workflow is valid.">>

validate_workflow(w) ==
  LET nodes == w.nodes
      edges == w.edges
      start_nodes == StartNodes(nodes, edges)
  IN  IF Len(nodes) = 0
        THEN <<FALSE, "Workflow cannot be empty.">>
      ELSE IF Len(start_nodes) # 1
        THEN <<FALSE, "Workflow must have exactly one starting point. Found "
                        \o ToString(Len(start_nodes)) \o ".">>
      ELSE IF nodes[start_nodes[1]].type # "userQuery"
        THEN <<FALSE, "The starting node must be a 'User Query' node.">>
      ELSE IF Len(nodes) > 1 /\ Len(edges) = 0
        THEN <<FALSE, "There are multiple nodes but no connections.">>
      ELSE IF EndNodes(nodes, edges) = {}
        THEN <<FALSE, "Workflow must have at least one Output node.">>
      ELSE <<TRUE, "Workflow is valid.">>

NotRun == <<FALSE, "not run">>

Null == [null |-> TRUE]

\* What the variables of the other entry points hold while one is modelled.
ExecutorIdle ==
  /\ query = "" /\ pc = "idle" /\ current_node_id = 0
  /\ current_data = Null /\ visited = <<>> /\ search_calls = <<>>
  /\ llm_calls = <<>> /\ result = Null

StoreIdle == stacks = <<>> /\ response = Null

ConcIdle == genai_key = "env" /\ execs = <<>>

InitV ==
  /\ IsWorkflow(workflow)
  /\ validation = NotRun
  /\ ExecutorIdle /\ StoreIdle /\ ConcIdle

Validate ==
  /\ validation = NotRun
  /\ validation' = validate_workflow(workflow)
  /\ UNCHANGED <<workflow, query, pc, current_node_id, current_data, visited,
                 search_calls, llm_calls, result, stacks, response,
                 genai_key, execs>>

NextV == Validate

SpecV == InitV /\ [][NextV]_vars

(***************************************************************************)
(* Properties of validate_workflow, under SpecV.                           *)
(***************************************************************************)
NoIncoming(w) ==
  { i \in DOMAIN w.nodes : \A e \in Range(w.edges) : e.target # w.nodes[i].id }

Accepted(w) ==
  /\ Len(w.nodes) > 0
  /\ Cardinality(NoIncoming(w)) = 1
  /\ \A i \in NoIncoming(w) : w.nodes[i].type = "userQuery"
  /\ ~ (Len(w.nodes) > 1 /\ Len(w.edges) = 0)
  /\ \E i \in DOMAIN w.nodes :
        /\ w.nodes[i].type = "output"
        /\ \A e \in Range(w.edges) : e.source # w.nodes[i].id

\* C1: validate_workflow returns (True, "Workflow is valid.") exactly when
\* the node list is non-empty, exactly one node is the target of no edge,
\* that node is a userQuery node, it is not the case that there are several
\* nodes and no edge, and some output node is the source of no edge; in
\* every other case its first component is False.
C1_ValidExactlyWhen ==
  validation # NotRun =>
     /\ (validation = <<TRUE, "Workflow is valid.">>) <=> Accepted(workflow)
     /\ ~ Accepted(workflow) => validation[1] = FALSE

C1_Witness ==
  /\ validation = <<TRUE, "Workflow is valid.">>
  /\ Len(workflow.nodes) = MaxNodes
  /\ Len(workflow.edges) = MaxEdges

\* C2: a graph with more than one node and no edge fails with the message
\* "There are multiple nodes but no connections."
C2_MultipleNodesNoEdgesMessage ==
  (validation # NotRun /\ Len(workflow.nodes) > 1 /\ Len(workflow.edges) = 0)
     => validation = <<FALSE, "There are multiple nodes but no connections.">>

(***************************************************************************)
(* The context payload: a plain string, or the dict {"query": ...,         *)
(* "context": ...} a knowledgeBase node produces.                          *)
(***************************************************************************)
Str(s) == [tag |-> "str", text |-> s]

Dict(q, c) == [tag |-> "dict", query |-> q, context |-> c]

IsDict(v) == v.tag = "dict"

\* str(v), as str.format applies it to a replacement value: a string is
\* itself, a dict becomes the text of its repr.
PyStr(v) == IF IsDict(v) THEN [tag |-> "repr", of |-> v] ELSE v

(***************************************************************************)
(* The collaborators.  Each absorbs its own failures and returns one of    *)
(* its texts.                                                              *)
(***************************************************************************)
Queries == {"hello"}

\* processing.search_in_knowledge_base: the joined documents, or "".
SearchResults == {"CTX", ""}

\* llm_handler.generate_response: response.text, or the apology.
LlmResponses == {"ANSWER", "Sorry, I encountered an error while generating a response."}

\* web_search.perform_search: the joined snippets, or a status text.
WebResults == {"WEB", "Error performing web search."}

(***************************************************************************)
(* str.format(query=..., context=..., web_context=...)                     *)
(***************************************************************************)
IsField(piece) == piece \in {"{query}", "{context}", "{web_context}", "{history}"}

\* KeyError: a replacement field that is none of the keyword arguments.
FormatRaises(template) ==
  \E i \in DOMAIN template :
     IsField(template[i]) /\ template[i] \notin {"{query}", "{context}", "{web_context}"}

Format(template, q, c, w) ==
  [i \in DOMAIN template |->
     IF template[i] = "{query}" THEN PyStr(q)
     ELSE IF template[i] = "{context}" THEN PyStr(c)
     ELSE IF template[i] = "{web_context}" THEN PyStr(w)
     ELSE Str(template[i])]

\* The loop of run_workflow has no step limit; the model follows it for this
\* many dispatches, enough for every walk to end or to come back to a node.
MaxSteps == MaxNodes + 2

(***************************************************************************)
(* orchestrator.run_workflow                                               *)
(***************************************************************************)
MissingStart == "Error: A 'UserQuery' node must be the start of the workflow."

NodeIds(w) == { w.nodes[i].id : i \in DOMAIN w.nodes }

\* nodes[id] of the dict built from the node list.
NodeById(w, id) == w.nodes[CHOOSE i \in DOMAIN w.nodes : w.nodes[i].id = id]

\* FindStart testing the source of the edges where it should test the target.
FindStart_source_test(w) ==
  LET cands == SelectSeq([i \in 1..Len(w.nodes) |-> i],
                 LAMBDA i : /\ w.nodes[i].type = "userQuery"
                            /\ ~ \E e \in Range(w.edges) : e.source = w.nodes[i].id)
  IN  IF cands = <<>> THEN 0 ELSE w.nodes[cands[1]].id

\* The first userQuery node, in list order, that no edge targets; 0 (None)
\* when there is none.
FindStart(w) ==
  LET cands == SelectSeq([i \in 1..Len(w.nodes) |-> i],
                 LAMBDA i : /\ w.nodes[i].type = "userQuery"
                            /\ ~ \E e \in Range(w.edges) : e.target = w.nodes[i].id)
  IN  IF cands = <<>> THEN 0 ELSE w.nodes[cands[1]].id

\* NextNodeId taking the last matching edge.
NextNodeId_last_edge(edges, id) ==
  LET outs == SelectSeq(edges, LAMBDA e : e.source = id)
  IN  IF outs = <<>> THEN 0 ELSE outs[Len(outs)].target

\* next((edge for edge in edges if edge['source'] == id), None), then its
\* target; 0 (None) when there is no such edge.
NextNodeId(edges, id) ==
  LET outs == SelectSeq(edges, LAMBDA e : e.source = id)
  IN  IF outs = <<>> THEN 0 ELSE outs[1].target

Init ==
  /\ IsWorkflow(workflow)
  /\ query \in Queries
  /\ pc = "idle"
  /\ current_node_id = 0
  /\ current_data = Null
  /\ visited = <<>>
  /\ search_calls = <<>>
  /\ llm_calls = <<>>
  /\ result = Null
  /\ validation = NotRun
  /\ StoreIdle /\ ConcIdle

OthersUnchanged == UNCHANGED <<workflow, query, validation, stacks, response, genai_key, execs>>

\* Lines 4-19: find the start node, seed the payload.
Start ==
  /\ pc = "idle"
  /\ LET start == FindStart(workflow)
     IN  IF start = 0
           THEN /\ pc' = "returned"
                /\ result' = Str(MissingStart)
                /\ UNCHANGED <<current_node_id, current_data>>
           ELSE /\ pc' = "running"
                /\ current_node_id' = start
                /\ current_data' = Str(query)
                /\ UNCHANGED result
  /\ UNCHANGED <<visited, search_calls, llm_calls>>
  /\ OthersUnchanged

\* Lines 92-95: follow the first outgoing edge, or leave the loop and return.
Advance(data) ==
  LET next == NextNodeId(workflow.edges, current_node_id)
  IN  /\ current_data' = data
      /\ current_node_id' = next
      /\ visited' = Append(visited, current_node_id)
      /\ IF next = 0
           THEN pc' = "returned" /\ result' = data
           ELSE pc' = "running" /\ UNCHANGED result

\* An exception leaves run_workflow.
Raise ==
  /\ pc' = "raised"
  /\ UNCHANGED <<current_node_id, current_data, visited, search_calls, llm_calls, result>>

\* Line 22: nodes[current_node_id] of an id no node has.
StepKeyError ==
  /\ pc = "running"
  /\ Len(visited) < MaxSteps
  /\ current_node_id \notin NodeIds(workflow)
  /\ Raise
  /\ OthersUnchanged

\* Lines 28-29.
StepUserQuery ==
  /\ pc = "running"
  /\ Len(visited) < MaxSteps
  /\ current_node_id \in NodeIds(workflow)
  /\ NodeById(workflow, current_node_id).type = "userQuery"
  /\ Advance(Str(query))
  /\ UNCHANGED <<search_calls, llm_calls>>
  /\ OthersUnchanged

\* Lines 31-37: the payload itself is the query argument of the search and
\* the "query" of the dict produced.
StepKnowledgeBase ==
  /\ pc = "running"
  /\ Len(visited) < MaxSteps
  /\ current_node_id \in NodeIds(workflow)
  /\ NodeById(workflow, current_node_id).type = "knowledgeBase"
  /\ \E context \in SearchResults :
        /\ search_calls' = Append(search_calls,
                              [query |-> current_data, returned |-> Str(context)])
        /\ Advance(Dict(current_data, Str(context)))
  /\ UNCHANGED llm_calls
  /\ OthersUnchanged

\* Lines 44-45.
PromptInputQuery(data) == IF IsDict(data) THEN data.query ELSE data

PromptInputContext(data) == IF IsDict(data) THEN data.context ELSE Str("")

\* Lines 39-87.
StepLlmEngine ==
  /\ pc = "running"
  /\ Len(visited) < MaxSteps
  /\ current_node_id \in NodeIds(workflow)
  /\ NodeById(workflow, current_node_id).type = "llmEngine"
  /\ LET node_data == NodeById(workflow, current_node_id).data
         prompt_input_query == PromptInputQuery(current_data)
         prompt_input_context == PromptInputContext(current_data)
         web_search_tool == Get(node_data, "webSearchTool", "None")
         prompt_template == Get(node_data, "prompt", DefaultTemplate)
     IN  \E web \in WebResults, answer \in LlmResponses :
            LET web_context == IF web_search_tool = "SerpAPI" THEN Str(web) ELSE Str("")
            IN  IF FormatRaises(prompt_template)
                  THEN Raise
                  ELSE /\ llm_calls' = Append(llm_calls,
                              [prompt |-> Format(prompt_template, prompt_input_query,
                                                 prompt_input_context, web_context),
                               returned |-> Str(answer)])
                       /\ Advance(Str(answer))
                       /\ UNCHANGED search_calls
  /\ OthersUnchanged

\* Lines 89-90 (and a type none of the branches names).
StepOutput ==
  /\ pc = "running"
  /\ Len(visited) < MaxSteps
  /\ current_node_id \in NodeIds(workflow)
  /\ NodeById(workflow, current_node_id).type \notin {"userQuery", "knowledgeBase", "llmEngine"}
  /\ Advance(current_data)
  /\ UNCHANGED <<search_calls, llm_calls>>
  /\ OthersUnchanged

Next == Start \/ StepKeyError \/ StepUserQuery \/ StepKnowledgeBase \/ StepLlmEngine \/ StepOutput

Spec == Init /\ [][Next]_vars

(***************************************************************************)
(* Properties of run_workflow, under Spec.                                 *)
(***************************************************************************)
Valid == validate_workflow(workflow)[1]

HasOutgoing(id) == \E e \in Range(workflow.edges) : e.source = id

LastDispatched == visited[Len(visited)]

Revisiting == pc = "running" /\ current_node_id \in Range(visited)

\* C3: run_workflow never raises to its caller.
C3_NeverRaises == pc # "raised"

PlainOrPair(v) == v.tag = "str" \/ (v.tag = "dict" /\ v.query.tag = "str")

\* C5: the payload is always a plain string or a pair whose query is a plain
\* string, and the knowledgeBase handler passes a plain string to the
\* embedding search.
C5_PayloadShape ==
  /\ pc \in {"running", "returned"} /\ visited # <<>> => PlainOrPair(current_data)
  /\ \A i \in DOMAIN search_calls : search_calls[i].query.tag = "str"

\* The least index of an edge leaving id, 0 when no edge leaves it.
FirstOutgoing(id) ==
  LET ks == { k \in DOMAIN workflow.edges : workflow.edges[k].source = id }
  IN  IF ks = {} THEN 0 ELSE CHOOSE k \in ks : \A j \in ks : k <= j

C6_FollowsFirstEdge ==
  [][ visited' # visited =>
        LET k == FirstOutgoing(current_node_id)
        IN  IF k = 0
              THEN pc' = "returned" /\ result' = current_data'
              ELSE pc' = "running" /\ current_node_id' = workflow.edges[k].target ]_vars

C6_CycleNeverEnds == [][ Revisiting => pc' = "running" ]_vars

C6_EndedWithoutRevisit ==
  pc \in {"returned", "raised"} =>
     \A i, j \in DOMAIN visited : visited[i] = visited[j] => i = j

\* The loop is never stuck: until the call ends or comes back to a node
\* (within as many dispatches as the graph has nodes) a next iteration runs.
C6_GoesOnUntilRevisit ==
  /\ (pc = "running" /\ ~ Revisiting) => ENABLED Next
  /\ (pc = "running" /\ Len(visited) > Len(workflow.nodes)) => Revisiting

\* C6: run_workflow follows, from each node it dispatches, the first edge in
\* stored order that leaves it, and returns the current payload as soon as
\* no edge leaves the current node; the call ends exactly when the walk
\* never comes back to a node, and once it has come back it never ends.
C6_FirstEdgeWalk ==
  /\ C6_FollowsFirstEdge
  /\ C6_CycleNeverEnds
  /\ []C6_EndedWithoutRevisit
  /\ []C6_GoesOnUntilRevisit

\* A call that has come back to a node and gone on to the model's last step.
C6_Witness ==
  /\ Revisiting
  /\ Len(visited) = MaxSteps
  /\ Cardinality(Range(visited)) = MaxNodes

\* C7 as stated: on an accepted graph a call that returns has last
\* dispatched an output node with no outgoing edge.
C7_EndsAtOutput ==
  (Valid /\ pc = "returned") =>
     /\ visited # <<>>
     /\ NodeById(workflow, LastDispatched).type = "output"
     /\ ~ HasOutgoing(LastDispatched)

\* Every edge joins two nodes of the graph and no node has two outgoing edges.
SimplePaths ==
  /\ \A e \in Range(workflow.edges) :
        e.source \in NodeIds(workflow) /\ e.target \in NodeIds(workflow)
  /\ \A i, j \in DOMAIN workflow.edges :
        workflow.edges[i].source = workflow.edges[j].source => i = j

\* C7 (amended): on an accepted graph a call that returns has last dispatched
\* a node with no outgoing edge; that node is an output node when every edge
\* joins two nodes of the graph and no node has two outgoing edges.
C7_EndsAtSink ==
  (Valid /\ pc = "returned") =>
     /\ visited # <<>>
     /\ ~ HasOutgoing(LastDispatched)
     /\ SimplePaths => NodeById(workflow, LastDispatched).type = "output"

C7_Witness ==
  /\ Valid /\ pc = "returned" /\ SimplePaths
  /\ Len(visited) = MaxNodes
  /\ NodeById(workflow, LastDispatched).type = "output"

ChainKinds == <<"userQuery", "knowledgeBase", "llmEngine", "output">>

ChainWorkflows ==
  { [nodes |-> [i \in DOMAIN ChainKinds |->
                  LET kind == ChainKinds[CHOOSE k \in DOMAIN ChainKinds : p[k] = i]
                  IN  [id |-> i, type |-> kind,
                       data |-> IF kind = "llmEngine" THEN d ELSE PlainData]],
     edges |-> [j \in DOMAIN o |-> [source |-> p[o[j]], target |-> p[o[j] + 1]]]] :
      p \in Permutations(DOMAIN ChainKinds),
      o \in Permutations(1..(Len(ChainKinds) - 1)),
      d \in LlmData }

InitChain ==
  /\ workflow \in ChainWorkflows
  /\ query \in Queries
  /\ pc = "idle"
  /\ current_node_id = 0
  /\ current_data = Null
  /\ visited = <<>>
  /\ search_calls = <<>>
  /\ llm_calls = <<>>
  /\ result = Null
  /\ validation = NotRun
  /\ StoreIdle /\ ConcIdle

NextChain == Start \/ StepUserQuery \/ StepKnowledgeBase \/ StepLlmEngine \/ StepOutput

SpecChain == InitChain /\ [][NextChain]_vars

\* The kinds of the nodes on the first-edge walk from the start node are
\* userQuery, knowledgeBase, llmEngine, output, and the walk ends there.
IsChainWalk(w) ==
  LET a == FindStart(w)
      b == NextNodeId(w.edges, a)
      c == NextNodeId(w.edges, b)
      d == NextNodeId(w.edges, c)
  IN  /\ {a, b, c, d} \subseteq NodeIds(w)
      /\ <<NodeById(w, a).type, NodeById(w, b).type,
           NodeById(w, c).type, NodeById(w, d).type>> = ChainKinds
      /\ NextNodeId(w.edges, d) = 0

LlmNodeOf(w) == w.nodes[CHOOSE i \in DOMAIN w.nodes : w.nodes[i].type = "llmEngine"]

\* C4: on a graph whose walk is userQuery -> knowledgeBase -> llmEngine ->
\* output, a call of run_workflow ends by returning; the language model was
\* called exactly once, with the prompt rendered from the original query and
\* the text the embedding search returned, and its text is what is returned.
C4_ChainReturnsLlmText ==
  (IsChainWalk(workflow) /\ pc \in {"returned", "raised"}) =>
     /\ pc = "returned"
     /\ Len(search_calls) = 1
     /\ Len(llm_calls) = 1
     /\ \E web \in {""} \cup WebResults :
           llm_calls[1].prompt =
              Format(Get(LlmNodeOf(workflow).data, "prompt", DefaultTemplate),
                     Str(query), search_calls[1].returned, Str(web))
     /\ result = llm_calls[1].returned

(***************************************************************************)
(* main.update_stack over the stacks table (crud.create_stack,             *)
(* crud.update_stack_workflow).  stacks[i] is the workflow column of the   *)
(* stack with id i, Null while it has never been set.                      *)
(***************************************************************************)
MaxStacks == 2
MaxStoreNodes == 2
MaxStoreEdges == 1

\* The request bodies of update_stack: validate_workflow reads no node data,
\* so the nodes carry none beyond their label.
StoreWorkflows ==
  { w \in WorkflowsOf(MaxStoreNodes, MaxStoreEdges) :
      \A i \in DOMAIN w.nodes : w.nodes[i].data = PlainData }

InitStore ==
  /\ stacks = <<>>
  /\ response = Null
  /\ workflow = Null
  /\ validation = NotRun
  /\ ExecutorIdle /\ ConcIdle

StoreUnchanged ==
  UNCHANGED <<query, pc, current_node_id, current_data, visited, search_calls,
              llm_calls, result, validation, genai_key, execs>>

\* POST /stacks/: a new row, its workflow column unset.
CreateStack ==
  /\ Len(stacks) < MaxStacks
  /\ stacks' = Append(stacks, Null)
  /\ response' = [request |-> "create_stack", status |-> 200,
                  id |-> Len(stacks) + 1, workflow |-> Null]
  /\ UNCHANGED workflow
  /\ StoreUnchanged

\* crud.update_stack_workflow: the table afterwards.
update_stack_workflow(table, stack_id, w) ==
  IF stack_id \in DOMAIN table THEN [table EXCEPT ![stack_id] = w] ELSE table

\* update_stack writing the workflow before it looks at the validation.
UpdateStack_store_first(stack_id, w) ==
  LET v == validate_workflow(w)
  IN  /\ workflow' = w
      /\ stacks' = update_stack_workflow(stacks, stack_id, w)
      /\ response' =
           IF ~ v[1]
             THEN [request |-> "update_stack", status |-> 400, detail |-> v[2]]
           ELSE IF stack_id \notin DOMAIN stacks
             THEN [request |-> "update_stack", status |-> 404, detail |-> "Stack not found"]
           ELSE [request |-> "update_stack", status |-> 200, id |-> stack_id, workflow |-> w]
      /\ StoreUnchanged

\* PUT /stacks/{stack_id}/ with body {"workflow": w}; the variable workflow
\* keeps the body of the request just answered.
UpdateStack(stack_id, w) ==
  LET v == validate_workflow(w)
  IN  /\ workflow' = w
      /\ IF ~ v[1]
           THEN /\ response' = [request |-> "update_stack", status |-> 400, detail |-> v[2]]
                /\ UNCHANGED stacks
         ELSE IF stack_id \notin DOMAIN stacks
           THEN /\ response' = [request |-> "update_stack", status |-> 404,
                                detail |-> "Stack not found"]
                /\ stacks' = update_stack_workflow(stacks, stack_id, w)
         ELSE /\ response' = [request |-> "update_stack", status |-> 200,
                              id |-> stack_id, workflow |-> w]
              /\ stacks' = update_stack_workflow(stacks, stack_id, w)
      /\ StoreUnchanged

NextStore ==
  \/ CreateStack
  \/ \E stack_id \in 1..(MaxStacks + 1), w \in StoreWorkflows : UpdateStack(stack_id, w)

SpecStore == InitStore /\ [][NextStore]_vars

C9_StoredAreValid ==
  \A i \in DOMAIN stacks : stacks[i] = Null \/ validate_workflow(stacks[i])[1]

C9_InvalidIsRefused ==
  [][ (response'.request = "update_stack" /\ ~ validate_workflow(workflow')[1]) =>
        /\ response'.status = 400
        /\ response'.detail = validate_workflow(workflow')[2]
        /\ stacks' = stacks ]_vars

\* C9: after any sequence of update_stack requests every stored workflow is
\* unset or one validate_workflow accepts; a request whose workflow fails
\* validation gets status 400 with the validator's message and changes no
\* stored workflow.
C9_OnlyValidStored == []C9_StoredAreValid /\ C9_InvalidIsRefused

C9_Witness ==
  /\ Len(stacks) = MaxStacks
  /\ stacks[1] # Null
  /\ stacks[MaxStacks] = Null
  /\ response.request = "update_stack" /\ response.status = 400

(***************************************************************************)
(* Concurrent chat requests.  Each execution of run_workflow makes, for    *)
(* the knowledgeBase and llmEngine nodes on its walk, a collaborator call  *)
(* with the node's own api key; the collaborator first configures the      *)
(* process-wide genai client when the key is set, then sends its request   *)
(* with whatever key the client holds.  execs[e].plan lists the calls of   *)
(* execution e, execs[e].log the calls it has made.                        *)
(***************************************************************************)
NumExecs == 2
MaxCalls == 2

\* The api key configured on the nodes of execution e.
KeyOf(e) == "key" \o ToString(e)

CallsOf(e) == [kind : {"knowledgeBase", "llmEngine"}, api_key : {"None", KeyOf(e)}]

PlansOf(e) == UNION { [1..n -> CallsOf(e)] : n \in 1..MaxCalls }

InitConc ==
  /\ genai_key = "env"
  /\ \E plans \in [1..NumExecs -> UNION { PlansOf(e) : e \in 1..NumExecs }] :
        /\ \A e \in 1..NumExecs : plans[e] \in PlansOf(e)
        /\ execs = [e \in 1..NumExecs |->
                      [plan |-> plans[e], next |-> 1, stage |-> "configure", log |-> <<>>]]
  /\ workflow = Null
  /\ validation = NotRun
  /\ ExecutorIdle /\ StoreIdle

ConcUnchanged ==
  UNCHANGED <<workflow, query, pc, current_node_id, current_data, visited,
              search_calls, llm_calls, result, validation, stacks, response>>

\* processing.py 91-92 and llm_handler.py 8-9: if api_key: genai.configure(...)
Configure(e) ==
  /\ execs[e].next <= Len(execs[e].plan)
  /\ execs[e].stage = "configure"
  /\ LET api_key == execs[e].plan[execs[e].next].api_key
     IN  genai_key' = IF api_key # "None" THEN api_key ELSE genai_key
  /\ execs' = [execs EXCEPT ![e].stage = "request"]
  /\ ConcUnchanged

\* processing.py 98-102 (genai.embed_content) and llm_handler.py 11-14
\* (model.generate_content): the request goes out under the client's key.
Request(e) ==
  /\ execs[e].next <= Len(execs[e].plan)
  /\ execs[e].stage = "request"
  /\ execs' = [execs EXCEPT
                 ![e].log = Append(@, [call |-> execs[e].plan[execs[e].next],
                                       used_key |-> genai_key]),
                 ![e].next = @ + 1,
                 ![e].stage = "configure"]
  /\ UNCHANGED genai_key
  /\ ConcUnchanged

NextConc == \E e \in 1..NumExecs : Configure(e) \/ Request(e)

SpecConc == InitConc /\ [][NextConc]_vars

\* C10: every collaborator call of an execution is made under a key that
\* only the execution itself determines: the key of the node when it has
\* one, and never a key another execution configured.
C10_OwnKeyOnly ==
  \A e \in DOMAIN execs : \A i \in DOMAIN execs[e].log :
     LET c == execs[e].log[i]
     IN  /\ c.call.api_key # "None" => c.used_key = c.call.api_key
         /\ c.used_key \in {"env", KeyOf(e)}

====
